---- MODULE Spec2Model ----
(***************************************************************************)
(* Abstract interpreter of notJoon/type_checker (crate abst): the abstract *)
(* value domain and its join (types.rs), the analysis state and its join   *)
(* (types.rs), and the tree-walking evaluator (interpret.rs); and the      *)
(* unification of crate constraint (main.rs).                              *)
(*                                                                         *)
(* Value equality is the derived PartialEq of the Rust enum: Array and     *)
(* Union carry a Vec, so two unions are equal only when their members are  *)
(* equal position by position.  A Union built by merge takes its members   *)
(* from the iteration of a std HashSet, whose order is not fixed (every    *)
(* HashSet::new() gets its own hasher keys); merge is therefore modelled   *)
(* as the SET of values one call may return.                               *)
(***************************************************************************)
EXTENDS Integers, Sequences, FiniteSets, TLC

VARIABLES
    a, b, c,        \* operands handed to AbstractValue::merge
    op,             \* which combination of merges has been applied
    r1, r2,         \* the two results that combination produced
    self0, other,   \* receiver (before) and argument of AbstractState::merge
    self1, self2,   \* receiver after the first and after the second merge
    sop,            \* which state-merge operation has been applied
    state,          \* the root AbstractState handed to interpret
    result,         \* the value the last call of interpret returned
    last,           \* the top-level node that call evaluated
    pre,            \* the root state before that call
    trace,          \* the functions whose bodies that call evaluated, in order
    steps,          \* how many top-level nodes have been evaluated
    next_var_id,    \* TypeContext.next_var_id
    substitutions,  \* TypeContext.substitutions: TypeVar id -> Type
    ucall,          \* the last call on the TypeContext and what it returned
    program,        \* the node one stepwise run of interpret evaluates
    initial,        \* the state that run started from
    ctl,            \* what is left to do in that run, innermost first
    vals,           \* the values returned so far and not yet consumed
    heap,           \* the AbstractState objects of the run; heap[1] is the root
    status          \* "idle", "running", "done", or "overflow" (stack exhausted)

valueVars == <<a, b, c, op, r1, r2>>
stateVars == <<self0, other, self1, self2, sop>>
interpVars == <<state, result, last, pre, trace, steps>>
contextVars == <<next_var_id, substitutions, ucall>>
vars == <<a, b, c, op, r1, r2, self0, other, self1, self2, sop,
          state, result, last, pre, trace, steps,
          next_var_id, substitutions, ucall,
          program, initial, ctl, vals, heap, status>>
machineVars == <<program, initial, ctl, vals, heap, status>>

-----------------------------------------------------------------------------
(* Bounds of the explored inputs *)

MaxLen == 2         \* longest Array among the operands
MaxUnion == 2       \* most members of a Union among the operands
MaxSteps == 3       \* most top-level nodes of a program
MaxVars == 3        \* most type variables a TypeContext creates
MaxDepth == 3       \* most function calls active at once before the stack is exhausted

-----------------------------------------------------------------------------
(* AbstractValue *)

Undefined == [tag |-> "Undefined"]
Null == [tag |-> "Null"]
Boolean == [tag |-> "Boolean"]
Number == [tag |-> "Number"]
String == [tag |-> "String"]
Object(props) == [tag |-> "Object", props |-> props]
Array(elems) == [tag |-> "Array", elems |-> elems]
Union(variants) == [tag |-> "Union", variants |-> variants]
Generic(name, inner) == [tag |-> "Generic", name |-> name, inner |-> inner]

Max(m, n) == IF m >= n THEN m ELSE n

\* every sequence that lists the members of the finite set S once each:
\* the orders in which iterating a HashSet holding S may yield them
RECURSIVE Orderings(_)
Orderings(S) ==
    IF S = {} THEN {<<>>}
    ELSE UNION {{<<x>> \o s : s \in Orderings(S \ {x})} : x \in S}

\* every sequence whose i-th entry is drawn from the i-th set of slots
RECURSIVE SeqsFrom(_)
SeqsFrom(slots) ==
    IF Len(slots) = 0 THEN {<<>>}
    ELSE {<<h>> \o t : h \in Head(slots), t \in SeqsFrom(Tail(slots))}

\* every map that takes each key of slots to a member of slots[key]
MapsFrom(slots) ==
    LET all == UNION {slots[key] : key \in DOMAIN slots}
    IN {f \in [DOMAIN slots -> all] : \A key \in DOMAIN slots : f[key] \in slots[key]}

\* a_elements.get(i).unwrap_or(&Undefined), with i counted from 1
GetOrUndefined(elems, i) == IF i \in DOMAIN elems THEN elems[i] ELSE Undefined

\* a_obj.props.get(key).unwrap_or(&Undefined)
PropOrUndefined(props, key) ==
    IF key \in DOMAIN props THEN props[key] ELSE Undefined

RECURSIVE collect_variants(_)
RECURSIVE merge(_, _)

\* collect_variants without its Union arm: the operand is inserted as it is
collect_variants_no_unwrap(v) == {v}

\* the set the calls self.collect_variants(&mut set) add to `set`
collect_variants(v) ==
    IF v.tag = "Union"
    THEN UNION {collect_variants(v.variants[i]) : i \in DOMAIN v.variants}
    ELSE {v}

\* the Array arm pairing the elements with zip: it stops at the shorter operand
merge_arrays_zip(a_elements, b_elements) ==
    LET min_length == IF Len(a_elements) <= Len(b_elements)
                      THEN Len(a_elements) ELSE Len(b_elements)
        slots == [i \in 1..min_length |-> merge(a_elements[i], b_elements[i])]
    IN {Array(merged_elements) : merged_elements \in SeqsFrom(slots)}

\* step 3, arm (Array, Array)
merge_arrays(a_elements, b_elements) ==
    LET max_length == Max(Len(a_elements), Len(b_elements))
        slots == [i \in 1..max_length |->
                    merge(GetOrUndefined(a_elements, i),
                          GetOrUndefined(b_elements, i))]
    IN {Array(merged_elements) : merged_elements \in SeqsFrom(slots)}

\* step 3, arm (Object, Object)
merge_objects(a_props, b_props) ==
    LET keys == DOMAIN a_props \cup DOMAIN b_props
        slots == [key \in keys |-> merge(PropOrUndefined(a_props, key),
                                         PropOrUndefined(b_props, key))]
    IN {Object(merged_props) : merged_props \in MapsFrom(slots)}

\* step 3, arm _ : both operands flattened into one HashSet
merge_union(self, oth) ==
    LET variants == collect_variants(self) \cup collect_variants(oth)
    IN IF Cardinality(variants) = 1
       THEN variants
       ELSE {Union(vs) : vs \in Orderings(variants)}

\* merge without the `matches!(other, Undefined)` early return of step 2
merge_no_right_identity(self, oth) ==
    IF self = oth THEN {self}
    ELSE IF self.tag = "Undefined" THEN {oth}
    ELSE IF self.tag = "Array" /\ oth.tag = "Array"
         THEN merge_arrays(self.elems, oth.elems)
    ELSE IF self.tag = "Object" /\ oth.tag = "Object"
         THEN merge_objects(self.props, oth.props)
    ELSE merge_union(self, oth)

\* <AbstractValue as Merge>::merge: the values one call may return
merge(self, oth) ==
    IF self = oth THEN {self}
    ELSE IF self.tag = "Undefined" THEN {oth}
    ELSE IF oth.tag = "Undefined" THEN {self}
    ELSE IF self.tag = "Array" /\ oth.tag = "Array"
         THEN merge_arrays(self.elems, oth.elems)
    ELSE IF self.tag = "Object" /\ oth.tag = "Object"
         THEN merge_objects(self.props, oth.props)
    ELSE merge_union(self, oth)

merge_values(x, y) == merge(x, y)

-----------------------------------------------------------------------------
(* ASTNode (ast.rs; FunctionDeclaration with the generics interpret.rs reads) *)

None == <<>>
Some(x) == <<x>>

Literal(value) == [kind |-> "Literal", value |-> value]
Variable(name) == [kind |-> "Variable", name |-> name]
Assignment(target, value) == [kind |-> "Assignment", target |-> target, value |-> value]
BinaryOp(o, left, right) == [kind |-> "BinaryOp", op |-> o, left |-> left, right |-> right]
IfStatement(condition, then_branch, else_branch) ==
    [kind |-> "IfStatement", condition |-> condition,
     then_branch |-> then_branch, else_branch |-> else_branch]
WhileLoop(condition, body) == [kind |-> "WhileLoop", condition |-> condition, body |-> body]
Block(statements) == [kind |-> "Block", statements |-> statements]
FunctionDeclaration(name, params, generics, body) ==
    [kind |-> "FunctionDeclaration", name |-> name, params |-> params,
     generics |-> generics, body |-> body]
FunctionCall(function, arguments) ==
    [kind |-> "FunctionCall", function |-> function, arguments |-> arguments]
ArrayLiteral(elements) == [kind |-> "ArrayLiteral", elements |-> elements]
ArrayIndex(array, index) == [kind |-> "ArrayIndex", array |-> array, index |-> index]

-----------------------------------------------------------------------------
(* Function and AbstractState *)

Function(params, generics, body) ==
    [params |-> params, generics |-> generics, body |-> body]

AbstractState(variables, functions) ==
    [variables |-> variables, functions |-> functions]

\* AbstractState::new
AbstractState_new == AbstractState(<<>>, <<>>)

\* HashMap::insert
Insert(map, key, value) ==
    [k \in DOMAIN map \cup {key} |-> IF k = key THEN value ELSE map[k]]

\* AbstractState::assign
assign(st, name, value) ==
    AbstractState(Insert(st.variables, name, value), st.functions)

\* AbstractState::get(name).cloned().unwrap_or(Undefined)
get_or_undefined(st, name) ==
    IF name \in DOMAIN st.variables THEN st.variables[name] ELSE Undefined

\* the functions loop of AbstractState::merge
merge_functions(self_functions, other_functions) ==
    [key \in DOMAIN self_functions \cup DOMAIN other_functions |->
        IF key \in DOMAIN other_functions
        THEN other_functions[key]
        ELSE self_functions[key]]

\* AbstractState::merge whose variables loop inserts other's value unmerged
AbstractState_merge_overwrite(self, oth) ==
    {AbstractState(
        [key \in DOMAIN self.variables \cup DOMAIN oth.variables |->
            IF key \in DOMAIN oth.variables
            THEN oth.variables[key] ELSE self.variables[key]],
        merge_functions(self.functions, oth.functions))}

\* AbstractState::merge: the states `self` may be in afterwards
AbstractState_merge(self, oth) ==
    LET keys == DOMAIN self.variables \cup DOMAIN oth.variables
        slots == [key \in keys |->
            IF key \in DOMAIN oth.variables
            THEN IF key \in DOMAIN self.variables
                 THEN merge_values(self.variables[key], oth.variables[key])
                 ELSE {oth.variables[key]}
            ELSE {self.variables[key]}]
    IN {AbstractState(variables, merge_functions(self.functions, oth.functions)) :
            variables \in MapsFrom(slots)}

-----------------------------------------------------------------------------
(* interpret (interpret.rs).  One evaluation of a node in a state may end in  *)
(* several ways (the member order of the unions merge builds); interpret is   *)
(* the set of its outcomes: the value returned, the state left behind, and    *)
(* log, the names of the functions whose bodies were evaluated, in order.     *)

Out(value, st, lg) == [value |-> value, state |-> st, log |-> lg]

abstract_add(left, right) ==
    IF left = Number /\ right = Number THEN Number
    ELSE IF left = String \/ right = String THEN String
    ELSE Union(<<Number, String>>)

abstract_subtract(left, right) ==
    IF left = Number /\ right = Number THEN Number ELSE Undefined

abstract_multiply(left, right) ==
    IF left = Number /\ right = Number THEN Number ELSE Undefined

abstract_divide(left, right) ==
    IF left = Number /\ right = Number THEN Number ELSE Undefined

abstract_equal(left, right) == Boolean

\* the match on op.as_str() of the BinaryOp arm
binary_op(o, left_value, right_value) ==
    CASE o = "+" -> abstract_add(left_value, right_value)
      [] o = "-" -> abstract_subtract(left_value, right_value)
      [] o = "*" -> abstract_multiply(left_value, right_value)
      [] o = "/" -> abstract_divide(left_value, right_value)
      [] o = "==" -> abstract_equal(left_value, right_value)
      [] OTHER -> Undefined

\* satisfies_constraint whose default arm accepts
satisfies_constraint_lenient(v, constraint) ==
    CASE constraint = "Number" -> v = Number
      [] constraint = "String" -> v = String
      [] constraint = "Boolean" -> v = Boolean
      [] OTHER -> TRUE

satisfies_constraint(v, constraint) ==
    CASE constraint = "Number" -> v = Number
      [] constraint = "String" -> v = String
      [] constraint = "Boolean" -> v = Boolean
      [] OTHER -> FALSE

\* elements.iter().fold(acc, |acc, elem| acc.merge(elem))
RECURSIVE fold_merge(_, _)
fold_merge(acc, elements) ==
    IF Len(elements) = 0 THEN {acc}
    ELSE UNION {fold_merge(x, Tail(elements)) : x \in merge(acc, Head(elements))}

\* the fold of the Union arm of ArrayIndex
RECURSIVE fold_variants(_, _)
fold_variants(acc, variants) ==
    IF Len(variants) = 0 THEN {acc}
    ELSE LET variant == Head(variants)
             next == IF variant.tag = "Array"
                     THEN UNION {merge(acc, elem_type) :
                                    elem_type \in fold_merge(Undefined, variant.elems)}
                     ELSE merge(acc, Undefined)
         IN UNION {fold_variants(x, Tail(variants)) : x \in next}

\* an index read that yields the first element only
element_type_first(array_value) ==
    CASE array_value.tag = "Array" ->
            {IF Len(array_value.elems) = 0 THEN Undefined ELSE array_value.elems[1]}
      [] array_value.tag = "Union" -> fold_variants(Undefined, array_value.variants)
      [] OTHER -> {Undefined}

\* the match on array_value of the ArrayIndex arm
element_type(array_value) ==
    CASE array_value.tag = "Array" -> fold_merge(Undefined, array_value.elems)
      [] array_value.tag = "Union" -> fold_variants(Undefined, array_value.variants)
      [] OTHER -> {Undefined}

\* func_state.assign(param, arg_value) for the zipped pairs, in order
RECURSIVE bind_params(_, _, _)
bind_params(func_state, params, values) ==
    IF Len(values) = 0 \/ Len(params) = 0 THEN func_state
    ELSE bind_params(assign(func_state, Head(params), Head(values)),
                     Tail(params), Tail(values))

\* func.params.iter().zip(arguments.iter()): the arguments that have a parameter
zip_arguments(params, arguments) ==
    SubSeq(arguments, 1, IF Len(params) <= Len(arguments)
                         THEN Len(params) ELSE Len(arguments))

\* a call that starts from a clone of the caller's variables
new_func_state_clone(caller) == AbstractState(caller.variables, <<>>)

\* a call that starts with the caller's function table
new_func_state_keep_functions(caller) == AbstractState(<<>>, caller.functions)

\* let mut func_state = AbstractState::new(): nothing of the caller's state

new_func_state(caller) == AbstractState_new

RECURSIVE interpret(_, _)
RECURSIVE interpret_each(_, _)
RECURSIVE generics_loop(_, _, _, _)

\* the nodes evaluated in order on the same state: the values, the state
\* left behind and the log
interpret_each(nodes, st) ==
    IF Len(nodes) = 0 THEN {[values |-> <<>>, state |-> st, log |-> <<>>]}
    ELSE UNION {{[values |-> <<h.value>> \o t.values,
                  state |-> t.state,
                  log |-> h.log \o t.log] : t \in interpret_each(Tail(nodes), h.state)} :
                    h \in interpret(Head(nodes), st)}

\* the loop over func.generics from position i on: whether every constraint
\* met was satisfied, and the caller's state and log when the loop ended
generics_loop(generics, arguments, i, st) ==
    IF i > Len(generics) THEN {[passed |-> TRUE, state |-> st, log |-> <<>>]}
    ELSE IF i > Len(arguments) THEN generics_loop(generics, arguments, i + 1, st)
    ELSE UNION {
        IF generics[i][2] # None /\ ~satisfies_constraint(arg.value, generics[i][2][1])
        THEN {[passed |-> FALSE, state |-> arg.state, log |-> arg.log]}
        ELSE {[passed |-> g.passed, state |-> g.state, log |-> arg.log \o g.log] :
                g \in generics_loop(generics, arguments, i + 1, arg.state)}
        : arg \in interpret(arguments[i], st)}

interpret_Assignment(node, st) ==
    {Out(v.value, assign(v.state, node.target, v.value), v.log) :
        v \in interpret(node.value, st)}

interpret_BinaryOp(node, st) ==
    UNION {{Out(binary_op(node.op, l.value, r.value), r.state, l.log \o r.log) :
                r \in interpret(node.right, l.state)} :
                    l \in interpret(node.left, st)}

\* a join that merges the else clone before the then clone
join_branches_else_first(st, t, e, lg) ==
    UNION {{Out(v, s2, lg \o t.log \o e.log) :
                s2 \in AbstractState_merge(s1, t.state),
                v \in merge(t.value, e.value)} :
                    s1 \in AbstractState_merge(st, e.state)}

\* the outcomes of both branches of an IfStatement joined into `st`, the state
\* the condition left: state.merge(&then_state); state.merge(&else_state);
\* then_value.merge(&else_value)
join_branches(st, t, e, lg) ==
    UNION {{Out(v, s2, lg \o t.log \o e.log) :
                s2 \in AbstractState_merge(s1, e.state),
                v \in merge(t.value, e.value)} :
                    s1 \in AbstractState_merge(st, t.state)}

\* an IfStatement whose else branch runs on the state the then branch left
interpret_IfStatement_sequential(node, st) ==
    UNION {UNION {UNION {join_branches(cnd.state, t, e, cnd.log) :
        e \in IF node.else_branch = None
              THEN {Out(Undefined, cnd.state, <<>>)}
              ELSE interpret(node.else_branch[1], t.state)} :
        t \in interpret(node.then_branch, cnd.state)} :
        cnd \in interpret(node.condition, st)}

interpret_IfStatement(node, st) ==
    UNION {UNION {UNION {join_branches(cnd.state, t, e, cnd.log) :
        e \in IF node.else_branch = None
              THEN {Out(Undefined, cnd.state, <<>>)}
              ELSE interpret(node.else_branch[1], cnd.state)} :
        t \in interpret(node.then_branch, cnd.state)} :
        cnd \in interpret(node.condition, st)}

\* a loop whose body runs on the state itself, with no clone and no merge
interpret_WhileLoop_in_place(node, st) ==
    {Out(Undefined, loop.state, loop.log) : loop \in interpret(node.body, st)}

interpret_WhileLoop(node, st) ==
    UNION {{Out(Undefined, s, loop.log) : s \in AbstractState_merge(st, loop.state)} :
                loop \in interpret(node.body, st)}

interpret_Block(node, st) ==
    {Out(IF Len(e.values) = 0 THEN Undefined ELSE e.values[Len(e.values)],
         e.state, e.log) : e \in interpret_each(node.statements, st)}

interpret_FunctionDeclaration(node, st) ==
    {Out(Undefined,
         AbstractState(st.variables,
                       Insert(st.functions, node.name,
                              Function(node.params, node.generics, node.body))),
         <<>>)}

\* a call that leaves the functions declared in the body in the caller's table
caller_after_call_leak(caller, func_state) ==
    AbstractState(caller.variables,
                  merge_functions(caller.functions, func_state.functions))

\* the caller's state when the call returns: func_state is a local of the
\* FunctionCall arm and is dropped with it
caller_after_call(caller, func_state) == caller

\* the call of a declared function: the first binding loop, the generics
\* loop, the second binding loop, then the body in func_state.
\* (generic_mapping is filled and never read: it is left out.)
call_function(func_name, func, arguments, st) ==
    LET zipped == zip_arguments(func.params, arguments)
    IN UNION {UNION {
        IF ~g.passed
        THEN {Out(Undefined, g.state, e1.log \o g.log)}
        ELSE UNION {
            LET func_state ==
                    bind_params(bind_params(new_func_state(st), func.params, e1.values),
                                func.params, e3.values)
            IN {Out(bo.value, caller_after_call(e3.state, bo.state),
                    e1.log \o g.log \o e3.log \o <<func_name>> \o bo.log) :
                        bo \in interpret(func.body, func_state)}
            : e3 \in interpret_each(zipped, g.state)}
        : g \in generics_loop(func.generics, arguments, 1, e1.state)}
        : e1 \in interpret_each(zipped, st)}

interpret_FunctionCall(node, st) ==
    IF node.function.kind # "Variable" THEN {Out(Undefined, st, <<>>)}
    ELSE IF node.function.name \notin DOMAIN st.functions THEN {Out(Undefined, st, <<>>)}
    ELSE call_function(node.function.name, st.functions[node.function.name],
                       node.arguments, st)

interpret_ArrayLiteral(node, st) ==
    {Out(Array(e.values), e.state, e.log) : e \in interpret_each(node.elements, st)}

interpret_ArrayIndex(node, st) ==
    UNION {UNION {
        IF index.value # Number
        THEN {Out(Undefined, index.state, arr.log \o index.log)}
        ELSE {Out(v, index.state, arr.log \o index.log) : v \in element_type(arr.value)}
        : index \in interpret(node.index, arr.state)}
        : arr \in interpret(node.array, st)}

\* interpret(node, state): the outcomes of evaluating node in st
interpret(node, st) ==
    CASE node.kind = "Literal" -> {Out(node.value, st, <<>>)}
      [] node.kind = "Variable" -> {Out(get_or_undefined(st, node.name), st, <<>>)}
      [] node.kind = "Assignment" -> interpret_Assignment(node, st)
      [] node.kind = "BinaryOp" -> interpret_BinaryOp(node, st)
      [] node.kind = "IfStatement" -> interpret_IfStatement(node, st)
      [] node.kind = "WhileLoop" -> interpret_WhileLoop(node, st)
      [] node.kind = "Block" -> interpret_Block(node, st)
      [] node.kind = "FunctionDeclaration" -> interpret_FunctionDeclaration(node, st)
      [] node.kind = "FunctionCall" -> interpret_FunctionCall(node, st)
      [] node.kind = "ArrayLiteral" -> interpret_ArrayLiteral(node, st)
      [] node.kind = "ArrayIndex" -> interpret_ArrayIndex(node, st)

-----------------------------------------------------------------------------
(* The abstract values the operands range over *)

RECURSIVE SeqsUpTo(_, _)
SeqsUpTo(S, n) ==
    IF n = 0 THEN {<<>>}
    ELSE LET shorter == SeqsUpTo(S, n - 1)
         IN shorter \cup {Append(s, x) : s \in {t \in shorter : Len(t) = n - 1}, x \in S}

Atoms == {Undefined, Null, Boolean, Number, String}
Keys == {"p", "q"}

ArraysOver(S, n) == {Array(es) : es \in SeqsUpTo(S, n)}
ObjectsOver(S) == {Object(f) : f \in UNION {[K -> S] : K \in SUBSET Keys}}
UnionsOver(S, n) ==
    {Union(vs) : vs \in UNION {Orderings(T) :
        T \in {U \in SUBSET S : Cardinality(U) >= 2 /\ Cardinality(U) <= n}}}

\* members of the composites of nesting depth one
Elems == {Undefined, Number, String}
\* composites of nesting depth two
Nested ==
    {Array(<<Union(<<Number, String>>)>>), Array(<<Union(<<String, Number>>)>>),
     Array(<<Array(<<Number>>)>>), Array(<<Array(<<String>>), Number>>),
     Object("p" :> Union(<<Number, String>>)), Object("p" :> Array(<<Number>>)),
     Union(<<Array(<<Number>>), String>>), Union(<<Number, Array(<<String>>)>>),
     Union(<<Array(<<Number>>), Array(<<String>>)>>),
     Union(<<Object("p" :> Number), Boolean>>)}

\* values that break the well-formedness of unions: a single member, a
\* direct Union member
IllFormed == {Union(<<Number>>), Union(<<Union(<<Number, String>>), Boolean>>)}

Values ==
    Atoms \cup {Generic("T", Number)} \cup IllFormed
    \cup ArraysOver(Elems, MaxLen) \cup ObjectsOver(Elems) \cup UnionsOver(Elems, MaxUnion)
    \cup Nested

\* operands of the actions that compare two independent results
LawValues ==
    Atoms \cup ArraysOver({Number, String}, 1)
    \cup {Object("p" :> Number), Object("q" :> String)}
    \cup UnionsOver({Boolean, Number, String}, MaxUnion)

\* third operands of MergeThree
ThirdValues == Atoms \cup {Array(<<Number>>), Union(<<Number, String>>)}

\* a well-formed value: every Union in it has two or more pairwise distinct
\* members, none of them a Union
RECURSIVE Valid(_)
Valid(v) ==
    CASE v.tag = "Union" ->
            /\ Len(v.variants) >= 2
            /\ \A i, j \in DOMAIN v.variants : i # j => v.variants[i] # v.variants[j]
            /\ \A i \in DOMAIN v.variants :
                    v.variants[i].tag # "Union" /\ Valid(v.variants[i])
      [] v.tag = "Array" -> \A i \in DOMAIN v.elems : Valid(v.elems[i])
      [] v.tag = "Object" -> \A k \in DOMAIN v.props : Valid(v.props[k])
      [] v.tag = "Generic" -> Valid(v.inner)
      [] OTHER -> TRUE

Members(u) == {u.variants[i] : i \in DOMAIN u.variants}

\* a value with the order of the members of its unions forgotten
RECURSIVE Canon(_)
Canon(v) ==
    CASE v.tag = "Union" -> [tag |-> "Union", variants |-> {Canon(m) : m \in Members(v)}]
      [] v.tag = "Array" -> Array([i \in DOMAIN v.elems |-> Canon(v.elems[i])])
      [] v.tag = "Object" -> Object([k \in DOMAIN v.props |-> Canon(v.props[k])])
      [] v.tag = "Generic" -> Generic(v.name, Canon(v.inner))
      [] OTHER -> v

\* equal up to the order of union members (the code's == also compares the order)
SameUpToOrder(x, y) == Canon(x) = Canon(y)

-----------------------------------------------------------------------------
(* Specification SpecValue: AbstractValue::merge applied to chosen operands *)

\* no node evaluated yet
NoNode == [kind |-> "none"]

\* no stepwise run
MachineIdle ==
    /\ program = NoNode /\ initial = AbstractState_new
    /\ ctl = <<>> /\ vals = <<>> /\ heap = <<>> /\ status = "idle"

\* no call on a TypeContext
NoCall == [op |-> "none"]
ContextIdle ==
    /\ next_var_id = 0 /\ substitutions = <<>> /\ ucall = NoCall

InterpIdle ==
    /\ state = AbstractState_new /\ pre = AbstractState_new
    /\ result = Undefined /\ last = NoNode /\ trace = <<>> /\ steps = 0

StateIdle ==
    /\ self0 = <<>> /\ other = <<>> /\ self1 = <<>> /\ self2 = <<>>
    /\ sop = "idle"

InitValue ==
    /\ a \in Values
    /\ b \in Values
    /\ c = Undefined
    /\ op = "init"
    /\ r1 = Undefined
    /\ r2 = Undefined
    /\ StateIdle
    /\ InterpIdle
    /\ ContextIdle
    /\ MachineIdle

\* r1 = a.merge(&b)
Merge ==
    /\ op = "init"
    /\ r1' \in merge(a, b)
    /\ op' = "merge"
    /\ UNCHANGED <<a, b, c, r2>>
    /\ UNCHANGED stateVars
    /\ UNCHANGED interpVars
    /\ UNCHANGED contextVars
    /\ UNCHANGED machineVars

\* r1 = a.merge(&b), r2 = b.merge(&a)
MergeBothWays ==
    /\ op = "init"
    /\ a \in LawValues
    /\ b \in LawValues
    /\ r1' \in merge(a, b)
    /\ r2' \in merge(b, a)
    /\ op' = "pair"
    /\ UNCHANGED <<a, b, c>>
    /\ UNCHANGED stateVars
    /\ UNCHANGED interpVars
    /\ UNCHANGED contextVars
    /\ UNCHANGED machineVars

\* r1 = a.merge(&b).merge(&c), r2 = a.merge(&b.merge(&c))
MergeThree ==
    /\ op = "init"
    /\ a \in LawValues
    /\ b \in LawValues
    /\ \E c0 \in ThirdValues :
          /\ c' = c0
          /\ \E ab \in merge(a, b) : r1' \in merge(ab, c0)
          /\ \E bc \in merge(b, c0) : r2' \in merge(a, bc)
    /\ op' = "triple"
    /\ UNCHANGED <<a, b>>
    /\ UNCHANGED stateVars
    /\ UNCHANGED interpVars
    /\ UNCHANGED contextVars
    /\ UNCHANGED machineVars

\* r1 = a.merge(&Undefined), r2 = Undefined.merge(&a)
MergeWithUndefined ==
    /\ op = "init"
    /\ r1' \in merge(a, Undefined)
    /\ r2' \in merge(Undefined, a)
    /\ op' = "identity"
    /\ UNCHANGED <<a, b, c>>
    /\ UNCHANGED stateVars
    /\ UNCHANGED interpVars
    /\ UNCHANGED contextVars
    /\ UNCHANGED machineVars

NextValue == Merge \/ MergeBothWays \/ MergeThree \/ MergeWithUndefined

SpecValue == InitValue /\ [][NextValue]_vars

-----------------------------------------------------------------------------
(* Claims about AbstractValue::merge *)

\* C1: commutativity, merge(a, b) == merge(b, a) for all valid a and b
\* (stated as the code's own == compares the two results).
C1_Commutative ==
    (op = "pair" /\ Valid(a) /\ Valid(b)) => r1 = r2

\* C2: associativity, merge(merge(a, b), c) == merge(a, merge(b, c)) for all
\* valid a, b and c.  The two sides are compared up to the order of union
\* members, which the code's == would compare too: a violation of this
\* formula is a violation of the claim under either reading of ==.
C2_Associative ==
    (op = "triple" /\ Valid(a) /\ Valid(b) /\ Valid(c)) => SameUpToOrder(r1, r2)

\* C3: Undefined is the identity of the join: merge(a, Undefined) == a and
\* merge(Undefined, a) == a for every abstract value a.
C3_UndefinedIdentity ==
    op = "identity" => (r1 = a /\ r2 = a)

C3_Witness ==
    op = "identity" /\ a.tag = "Union" /\ r1 = a /\ r2 = a

\* C4: merge preserves union well-formedness: for valid a and b every Union in
\* merge(a, b) has two or more pairwise distinct members and no direct Union
\* member, and merge(Number, String) is a Union whose member set is exactly
\* {Number, String}.
C4_UnionWellFormed ==
    (op = "merge" /\ Valid(a) /\ Valid(b)) =>
        /\ Valid(r1)
        /\ (a = Number /\ b = String) =>
              /\ r1.tag = "Union"
              /\ Members(r1) = {Number, String}
              /\ Len(r1.variants) = 2

C4_Witness ==
    /\ op = "merge"
    /\ a.tag = "Union" /\ b.tag = "Union" /\ a # b
    /\ Members(a) # Members(b)
    /\ r1.tag = "Union" /\ Len(r1.variants) >= 3
    /\ Valid(r1)

\* C5: two composites of the same kind merge slot by slot with Undefined
\* padding: arrays a # b give an Array of length max(len a, len b) whose i-th
\* element is merge(a[i], b[i]), a missing index read as Undefined; objects
\* give an Object over the union of both key sets, each value the merge of the
\* two sides' values, a missing key read as Undefined, so that a key of only
\* one operand keeps its original value.
C5_SlotWise ==
    /\ (op = "merge" /\ a.tag = "Array" /\ b.tag = "Array" /\ a # b) =>
          /\ r1.tag = "Array"
          /\ Len(r1.elems) = Max(Len(a.elems), Len(b.elems))
          /\ \A i \in 1..Len(r1.elems) :
                /\ i > Len(b.elems) => r1.elems[i] = a.elems[i]
                /\ i > Len(a.elems) => r1.elems[i] = b.elems[i]
                /\ (i <= Len(a.elems) /\ i <= Len(b.elems)) =>
                      r1.elems[i] \in merge(a.elems[i], b.elems[i])
    /\ (op = "merge" /\ a.tag = "Object" /\ b.tag = "Object" /\ a # b) =>
          /\ r1.tag = "Object"
          /\ DOMAIN r1.props = DOMAIN a.props \cup DOMAIN b.props
          /\ \A k \in DOMAIN r1.props :
                /\ k \notin DOMAIN b.props => r1.props[k] = a.props[k]
                /\ k \notin DOMAIN a.props => r1.props[k] = b.props[k]
                /\ (k \in DOMAIN a.props /\ k \in DOMAIN b.props) =>
                      r1.props[k] \in merge(a.props[k], b.props[k])

C5_Witness ==
    /\ op = "merge"
    /\ a.tag = "Array" /\ b.tag = "Array"
    /\ Len(a.elems) = 1 /\ Len(b.elems) = 2
    /\ a.elems[1] # b.elems[1] /\ a.elems[1] # Undefined /\ b.elems[1] # Undefined
    /\ Len(r1.elems) = 2 /\ r1.elems[2] = b.elems[2] /\ r1.elems[1].tag = "Union"

-----------------------------------------------------------------------------
(* Specification SpecState: AbstractState::merge applied to chosen states *)

Names == {"x", "y"}
StateValues == {Number, String, Array(<<Number>>), Array(<<String>>)}

\* two function definitions under one name
DefA == Function(<<"n">>, <<>>, Variable("n"))
DefB == Function(<<"n">>, <<<<"T", Some("Number")>>>>, Literal(Boolean))

VariableMaps == UNION {[K -> StateValues] : K \in SUBSET Names}
FunctionMaps ==
    {<<>>, "f" :> DefA, "f" :> DefB, "g" :> DefA, ("f" :> DefA) @@ ("g" :> DefB)}
States == {AbstractState(v, f) : v \in VariableMaps, f \in FunctionMaps}

ValueIdle ==
    /\ a = Undefined /\ b = Undefined /\ c = Undefined
    /\ r1 = Undefined /\ r2 = Undefined
    /\ op = "idle"

InitState ==
    /\ self0 \in States
    /\ other \in States
    /\ self1 = self0
    /\ self2 = self0
    /\ sop = "init"
    /\ ValueIdle
    /\ InterpIdle
    /\ ContextIdle
    /\ MachineIdle

\* self.merge(&other)
MergeOnce ==
    /\ sop = "init"
    /\ self1' \in AbstractState_merge(self0, other)
    /\ sop' = "once"
    /\ UNCHANGED <<self0, other, self2>>
    /\ UNCHANGED valueVars
    /\ UNCHANGED interpVars
    /\ UNCHANGED contextVars
    /\ UNCHANGED machineVars

\* self.merge(&other); self.merge(&other)
MergeTwice ==
    /\ sop = "init"
    /\ \E s1 \in AbstractState_merge(self0, other) :
          /\ self1' = s1
          /\ self2' \in AbstractState_merge(s1, other)
    /\ sop' = "twice"
    /\ UNCHANGED <<self0, other>>
    /\ UNCHANGED valueVars
    /\ UNCHANGED interpVars
    /\ UNCHANGED contextVars
    /\ UNCHANGED machineVars

NextState == MergeOnce \/ MergeTwice

SpecState == InitState /\ [][NextState]_vars

-----------------------------------------------------------------------------
(* Claims about AbstractState::merge *)

\* C6: self.merge(other) changes self exactly so: a variable of other becomes
\* merge(old self value, other's value) when self had it and a copy of other's
\* value otherwise; variables only in self are unchanged; a function of other
\* replaces self's (last writer wins); functions only in self are unchanged.
C6_StateMerge ==
    sop = "once" =>
        /\ DOMAIN self1.variables = DOMAIN self0.variables \cup DOMAIN other.variables
        /\ \A name \in DOMAIN other.variables :
              IF name \in DOMAIN self0.variables
              THEN self1.variables[name]
                       \in merge(self0.variables[name], other.variables[name])
              ELSE self1.variables[name] = other.variables[name]
        /\ \A name \in DOMAIN self0.variables \ DOMAIN other.variables :
              self1.variables[name] = self0.variables[name]
        /\ DOMAIN self1.functions = DOMAIN self0.functions \cup DOMAIN other.functions
        /\ \A name \in DOMAIN other.functions :
              self1.functions[name] = other.functions[name]
        /\ \A name \in DOMAIN self0.functions \ DOMAIN other.functions :
              self1.functions[name] = self0.functions[name]

C6_Witness ==
    /\ sop = "once"
    /\ DOMAIN self0.variables = {"x"} /\ DOMAIN other.variables = {"x", "y"}
    /\ self0.variables["x"] = Number /\ other.variables["x"] = String
    /\ self1.variables["x"].tag = "Union" /\ self1.variables["y"] = other.variables["y"]
    /\ "f" \in DOMAIN self0.functions /\ "f" \in DOMAIN other.functions
    /\ self0.functions["f"] # other.functions["f"]
    /\ self1.functions["f"] = other.functions["f"]

\* C7: state merge is idempotent in its argument: s.merge(o) applied twice in a
\* row leaves s with the same variable bindings and the same function table
\* as applying it once.
C7_Idempotent ==
    sop = "twice" => self2 = self1

-----------------------------------------------------------------------------
(* Specification Spec: a program is evaluated node by node, as the           *)
(* statements of a top-level Block are, on one root state that starts empty  *)

VarX == Variable("x")
VarY == Variable("y")

\* function identity<T>(x) { x }
DeclIdentity == FunctionDeclaration("identity", <<"x">>, <<<<"T", None>>>>, VarX)
\* function add<T: Number>(a, b) { a + b }
DeclAdd ==
    FunctionDeclaration("add", <<"a", "b">>, <<<<"T", Some("Number")>>>>,
                        BinaryOp("+", Variable("a"), Variable("b")))
\* function probe(p) { w = p; y }: assigns a local and reads a name it never bound
DeclProbe ==
    FunctionDeclaration("probe", <<"p">>, <<>>,
                        Block(<<Assignment("w", Variable("p")), VarY>>))
\* function check<...>(p, q) { q } under several lists of generics
CheckGenerics ==
    {<<<<"T", Some("String")>>>>,
     <<<<"T", Some("Boolean")>>>>,
     <<<<"T", Some("Object")>>>>,
     <<<<"T", None>>, <<"U", Some("String")>>>>,
     <<<<"T", Some("Number")>>, <<"U", Some("Number")>>, <<"V", Some("Number")>>>>}
DeclCheck(generics) ==
    FunctionDeclaration("check", <<"p", "q">>, generics, Variable("q"))

ArgLists ==
    {<<Literal(Number), Literal(Number)>>, <<Literal(String), Literal(Number)>>,
     <<Literal(Number), Literal(String)>>, <<VarX>>, <<Literal(Boolean)>>}
CallNames == {"identity", "add", "probe", "check", "nope"}

\* arr = [Number, String, Boolean]; elem = arr[Number]
AssignArr ==
    Assignment("arr", ArrayLiteral(<<Literal(Number), Literal(String), Literal(Boolean)>>))
AssignElem ==
    Assignment("elem", ArrayIndex(Variable("arr"), Literal(Number)))

\* a = identity(Number); b = identity(String)
AssignA ==
    Assignment("a", FunctionCall(Variable("identity"), <<Literal(Number)>>))
AssignB ==
    Assignment("b", FunctionCall(Variable("identity"), <<Literal(String)>>))

\* if (x == y) { w = String } else { w = Number }
IfDemo ==
    IfStatement(BinaryOp("==", VarX, VarY),
                Assignment("w", Literal(String)),
                Some(Assignment("w", Literal(Number))))

LiteralNodes == {Literal(Number)}
VariableNodes == {VarX, Variable("w")}
AssignmentNodes ==
    {Assignment("x", Literal(Number)), Assignment("y", Literal(Number)),
     Assignment("x", Literal(String)), AssignA, AssignB, AssignArr, AssignElem}
BinaryOpNodes == {BinaryOp(o, VarX, VarY) : o \in {"+", "-", "*", "/", "==", "<"}}
CondEq == BinaryOp("==", VarX, VarY)
CondAssign == Assignment("y", Literal(Boolean))
IfStatementNodes ==
    {IfDemo,
     IfStatement(CondEq, Assignment("w", Literal(String)), None),
     IfStatement(CondEq, Assignment("x", Literal(String)), Some(Assignment("w", VarX))),
     IfStatement(CondAssign, Assignment("x", Literal(String)), None),
     IfStatement(CondAssign, Assignment("w", Literal(String)), Some(Assignment("w", VarX)))}
\* while (i < Number) { i = i + Number }
WhileDemo ==
    WhileLoop(BinaryOp("<", Variable("i"), Literal(Number)),
              Assignment("i", BinaryOp("+", Variable("i"), Literal(Number))))
WhileLoopNodes ==
    {WhileLoop(BinaryOp("<", VarX, Literal(Number)),
               Assignment("x", BinaryOp("+", VarX, Literal(Number)))),
     WhileDemo,
     WhileLoop(CondAssign, AssignA)}
BlockNodes ==
    {Block(<<>>), Block(<<Assignment("y", VarX), Assignment("x", Literal(Boolean))>>)}
FunctionDeclarationNodes ==
    {DeclIdentity, DeclAdd, DeclProbe} \cup {DeclCheck(g) : g \in CheckGenerics}
\* two arguments with assignments inside them: y = x, x = String
EffectArgs == <<Assignment("y", VarX), Assignment("x", Literal(String))>>
FunctionCallNodes ==
    {FunctionCall(Variable(f), args) : f \in CallNames, args \in ArgLists}
    \cup {FunctionCall(Literal(Number), <<Literal(Number)>>)}
    \cup {FunctionCall(Variable(f), EffectArgs) : f \in {"probe", "add"}}
ArrayLiteralNodes == {ArrayLiteral(<<Literal(Number), VarX>>)}
ArrayIndexNodes ==
    {ArrayIndex(ArrayLiteral(<<Literal(Number), VarX>>), Literal(Number)),
     ArrayIndex(VarX, VarY),
     ArrayIndex(Variable("arr"), VarX),
     ArrayIndex(Literal(Union(<<Array(<<Number>>), Array(<<String, Boolean>>)>>)),
                Literal(Number)),
     ArrayIndex(Literal(Union(<<Null, Array(<<Number, String>>)>>)), Literal(Number)),
     ArrayIndex(Literal(Union(<<Number, String>>)), Literal(Number))}

Init ==
    /\ state = AbstractState_new
    /\ pre = AbstractState_new
    /\ result = Undefined
    /\ last = NoNode
    /\ trace = <<>>
    /\ steps = 0
    /\ ValueIdle
    /\ StateIdle
    /\ ContextIdle
    /\ MachineIdle

\* Each action is one call interpret(&node, &mut state) at the top level, for
\* a node of one kind.  The call is either watched (the node, the state
\* before it, the value returned and the log are recorded, and the run ends
\* there) or not (only the root state moves on).

InterpretLiteral ==
    /\ steps < MaxSteps
    /\ last = NoNode
    /\ \E node \in LiteralNodes : \E o \in interpret(node, state) : \E watch \in BOOLEAN :
          /\ state' = o.state
          /\ last' = IF watch THEN node ELSE NoNode
          /\ pre' = IF watch THEN state ELSE o.state
          /\ result' = IF watch THEN o.value ELSE Undefined
          /\ trace' = IF watch THEN o.log ELSE <<>>
    /\ steps' = steps + 1
    /\ UNCHANGED valueVars
    /\ UNCHANGED stateVars
    /\ UNCHANGED contextVars
    /\ UNCHANGED machineVars

InterpretVariable ==
    /\ steps < MaxSteps
    /\ last = NoNode
    /\ \E node \in VariableNodes : \E o \in interpret(node, state) : \E watch \in BOOLEAN :
          /\ state' = o.state
          /\ last' = IF watch THEN node ELSE NoNode
          /\ pre' = IF watch THEN state ELSE o.state
          /\ result' = IF watch THEN o.value ELSE Undefined
          /\ trace' = IF watch THEN o.log ELSE <<>>
    /\ steps' = steps + 1
    /\ UNCHANGED valueVars
    /\ UNCHANGED stateVars
    /\ UNCHANGED contextVars
    /\ UNCHANGED machineVars

InterpretAssignment ==
    /\ steps < MaxSteps
    /\ last = NoNode
    /\ \E node \in AssignmentNodes : \E o \in interpret(node, state) : \E watch \in BOOLEAN :
          /\ state' = o.state
          /\ last' = IF watch THEN node ELSE NoNode
          /\ pre' = IF watch THEN state ELSE o.state
          /\ result' = IF watch THEN o.value ELSE Undefined
          /\ trace' = IF watch THEN o.log ELSE <<>>
    /\ steps' = steps + 1
    /\ UNCHANGED valueVars
    /\ UNCHANGED stateVars
    /\ UNCHANGED contextVars
    /\ UNCHANGED machineVars

InterpretBinaryOp ==
    /\ steps < MaxSteps
    /\ last = NoNode
    /\ \E node \in BinaryOpNodes : \E o \in interpret(node, state) : \E watch \in BOOLEAN :
          /\ state' = o.state
          /\ last' = IF watch THEN node ELSE NoNode
          /\ pre' = IF watch THEN state ELSE o.state
          /\ result' = IF watch THEN o.value ELSE Undefined
          /\ trace' = IF watch THEN o.log ELSE <<>>
    /\ steps' = steps + 1
    /\ UNCHANGED valueVars
    /\ UNCHANGED stateVars
    /\ UNCHANGED contextVars
    /\ UNCHANGED machineVars

InterpretIfStatement ==
    /\ steps < MaxSteps
    /\ last = NoNode
    /\ \E node \in IfStatementNodes : \E o \in interpret(node, state) : \E watch \in BOOLEAN :
          /\ state' = o.state
          /\ last' = IF watch THEN node ELSE NoNode
          /\ pre' = IF watch THEN state ELSE o.state
          /\ result' = IF watch THEN o.value ELSE Undefined
          /\ trace' = IF watch THEN o.log ELSE <<>>
    /\ steps' = steps + 1
    /\ UNCHANGED valueVars
    /\ UNCHANGED stateVars
    /\ UNCHANGED contextVars
    /\ UNCHANGED machineVars

InterpretWhileLoop ==
    /\ steps < MaxSteps
    /\ last = NoNode
    /\ \E node \in WhileLoopNodes : \E o \in interpret(node, state) : \E watch \in BOOLEAN :
          /\ state' = o.state
          /\ last' = IF watch THEN node ELSE NoNode
          /\ pre' = IF watch THEN state ELSE o.state
          /\ result' = IF watch THEN o.value ELSE Undefined
          /\ trace' = IF watch THEN o.log ELSE <<>>
    /\ steps' = steps + 1
    /\ UNCHANGED valueVars
    /\ UNCHANGED stateVars
    /\ UNCHANGED contextVars
    /\ UNCHANGED machineVars

InterpretBlock ==
    /\ steps < MaxSteps
    /\ last = NoNode
    /\ \E node \in BlockNodes : \E o \in interpret(node, state) : \E watch \in BOOLEAN :
          /\ state' = o.state
          /\ last' = IF watch THEN node ELSE NoNode
          /\ pre' = IF watch THEN state ELSE o.state
          /\ result' = IF watch THEN o.value ELSE Undefined
          /\ trace' = IF watch THEN o.log ELSE <<>>
    /\ steps' = steps + 1
    /\ UNCHANGED valueVars
    /\ UNCHANGED stateVars
    /\ UNCHANGED contextVars
    /\ UNCHANGED machineVars

InterpretFunctionDeclaration ==
    /\ steps < MaxSteps
    /\ last = NoNode
    /\ \E node \in FunctionDeclarationNodes : \E o \in interpret(node, state) : \E watch \in BOOLEAN :
          /\ state' = o.state
          /\ last' = IF watch THEN node ELSE NoNode
          /\ pre' = IF watch THEN state ELSE o.state
          /\ result' = IF watch THEN o.value ELSE Undefined
          /\ trace' = IF watch THEN o.log ELSE <<>>
    /\ steps' = steps + 1
    /\ UNCHANGED valueVars
    /\ UNCHANGED stateVars
    /\ UNCHANGED contextVars
    /\ UNCHANGED machineVars

InterpretFunctionCall ==
    /\ steps < MaxSteps
    /\ last = NoNode
    /\ \E node \in FunctionCallNodes : \E o \in interpret(node, state) : \E watch \in BOOLEAN :
          /\ state' = o.state
          /\ last' = IF watch THEN node ELSE NoNode
          /\ pre' = IF watch THEN state ELSE o.state
          /\ result' = IF watch THEN o.value ELSE Undefined
          /\ trace' = IF watch THEN o.log ELSE <<>>
    /\ steps' = steps + 1
    /\ UNCHANGED valueVars
    /\ UNCHANGED stateVars
    /\ UNCHANGED contextVars
    /\ UNCHANGED machineVars

InterpretArrayLiteral ==
    /\ steps < MaxSteps
    /\ last = NoNode
    /\ \E node \in ArrayLiteralNodes : \E o \in interpret(node, state) : \E watch \in BOOLEAN :
          /\ state' = o.state
          /\ last' = IF watch THEN node ELSE NoNode
          /\ pre' = IF watch THEN state ELSE o.state
          /\ result' = IF watch THEN o.value ELSE Undefined
          /\ trace' = IF watch THEN o.log ELSE <<>>
    /\ steps' = steps + 1
    /\ UNCHANGED valueVars
    /\ UNCHANGED stateVars
    /\ UNCHANGED contextVars
    /\ UNCHANGED machineVars

InterpretArrayIndex ==
    /\ steps < MaxSteps
    /\ last = NoNode
    /\ \E node \in ArrayIndexNodes : \E o \in interpret(node, state) : \E watch \in BOOLEAN :
          /\ state' = o.state
          /\ last' = IF watch THEN node ELSE NoNode
          /\ pre' = IF watch THEN state ELSE o.state
          /\ result' = IF watch THEN o.value ELSE Undefined
          /\ trace' = IF watch THEN o.log ELSE <<>>
    /\ steps' = steps + 1
    /\ UNCHANGED valueVars
    /\ UNCHANGED stateVars
    /\ UNCHANGED contextVars
    /\ UNCHANGED machineVars

Next ==
    \/ InterpretLiteral
    \/ InterpretVariable
    \/ InterpretAssignment
    \/ InterpretBinaryOp
    \/ InterpretIfStatement
    \/ InterpretWhileLoop
    \/ InterpretBlock
    \/ InterpretFunctionDeclaration
    \/ InterpretFunctionCall
    \/ InterpretArrayLiteral
    \/ InterpretArrayIndex

Spec == Init /\ [][Next]_vars

-----------------------------------------------------------------------------
(* Claims about interpret *)

\* the watched call is a call of a function the caller's state declares
DeclaredCall ==
    /\ last.kind = "FunctionCall"
    /\ last.function.kind = "Variable"
    /\ last.function.name \in DOMAIN pre.functions

\* the called function
Callee == pre.functions[last.function.name]

\* argument expressions whose evaluation has no effect on the state
PureArgs(arguments) ==
    \A i \in DOMAIN arguments : arguments[i].kind \in {"Literal", "Variable"}

ArgValue(arg, st) ==
    IF arg.kind = "Literal" THEN arg.value ELSE get_or_undefined(st, arg.name)

\* a state that binds the formal parameters, zipped by position with the
\* values of the arguments, and nothing else
ParamsOnly(func, arguments, st) ==
    LET n == IF Len(func.params) <= Len(arguments)
             THEN Len(func.params) ELSE Len(arguments)
    IN AbstractState(
          [name \in {func.params[i] : i \in 1..n} |->
              ArgValue(arguments[CHOOSE i \in 1..n : func.params[i] = name], st)],
          <<>>)

\* C8: an IfStatement evaluates the condition on the shared state, then the
\* then-branch and the else-branch on two independent clones of that state,
\* merges the then-clone and then the else-clone into the original state and
\* returns merge(then_value, else_value), else_value being Undefined without
\* an else branch; so after x = Number; y = Number;
\* if (x == y) { w = String } else { w = Number }, w is the union of String
\* and Number and x is Number.
C8_IfJoinsBothPaths ==
    /\ last.kind = "IfStatement" =>
          \E cnd \in interpret(last.condition, pre) :
          \E t \in interpret(last.then_branch, cnd.state) :
          \E e \in IF last.else_branch = None
                   THEN {Out(Undefined, cnd.state, <<>>)}
                   ELSE interpret(last.else_branch[1], cnd.state) :
          \E s1 \in AbstractState_merge(cnd.state, t.state) :
              /\ state \in AbstractState_merge(s1, e.state)
              /\ result \in merge(t.value, e.value)
    /\ (/\ last = IfDemo
        /\ get_or_undefined(pre, "x") = Number
        /\ get_or_undefined(pre, "y") = Number
        /\ "w" \notin DOMAIN pre.variables) =>
          /\ state.variables["w"].tag = "Union"
          /\ Members(state.variables["w"]) = {String, Number}
          /\ Len(state.variables["w"].variants) = 2
          /\ state.variables["x"] = Number

C8_Witness ==
    /\ last = IfDemo
    /\ steps = 3
    /\ pre.variables = ("x" :> Number) @@ ("y" :> Number)
    /\ state.variables["w"].tag = "Union"
    /\ result.tag = "Union"

\* C9: the body of a called function is evaluated in a new state whose only
\* bindings are the formal parameters zipped by position with the argument
\* values: the result does not depend on the caller's variables, and no
\* variable assigned in the body appears in the caller's state afterwards;
\* with identity(x) { x }, a = identity(Number) then b = identity(String)
\* leaves a == Number and b == String.
C9_FreshCalleeState ==
    /\ (DeclaredCall /\ PureArgs(last.arguments) /\ trace # <<>>) =>
          /\ result \in {o.value :
                o \in interpret(Callee.body, ParamsOnly(Callee, last.arguments, pre))}
          /\ state = pre
    /\ (/\ last = AssignB
        /\ "identity" \in DOMAIN pre.functions
        /\ pre.functions["identity"] = Function(<<"x">>, <<<<"T", None>>>>, VarX)
        /\ get_or_undefined(pre, "a") = Number) =>
          /\ state.variables["b"] = String
          /\ state.variables["a"] = Number

C9_Witness ==
    /\ DeclaredCall
    /\ last.function.name = "probe"
    /\ last.arguments = <<Literal(Number), Literal(Number)>>
    /\ get_or_undefined(pre, "y") = Number
    /\ trace = <<"probe">>
    /\ result = Undefined
    /\ "w" \notin DOMAIN state.variables

\* C10: for every declared generic at position i that has a constraint tag and
\* whose argument i exists, an argument value that is not exactly the shape
\* the tag names ("Number", "String", "Boolean"; no other tag is satisfied)
\* makes the call return Undefined without evaluating the body; when every
\* such check passes the call returns the value of the body.  So
\* add<T: Number>(a, b) { a + b } gives Number for (Number, Number) and
\* Undefined for (String, Number).
C10_ConstraintGate ==
    /\ (DeclaredCall /\ PureArgs(last.arguments)) =>
          LET Shape(tag, v) ==
                  \/ tag = "Number" /\ v = Number
                  \/ tag = "String" /\ v = String
                  \/ tag = "Boolean" /\ v = Boolean
              failing ==
                  \E i \in 1..Len(Callee.generics) :
                      /\ i <= Len(last.arguments)
                      /\ Callee.generics[i][2] # None
                      /\ ~Shape(Callee.generics[i][2][1], ArgValue(last.arguments[i], pre))
          IN IF failing
             THEN result = Undefined /\ trace = <<>>
             ELSE /\ trace # <<>>
                  /\ trace[1] = last.function.name
                  /\ result \in {o.value :
                        o \in interpret(Callee.body,
                                        ParamsOnly(Callee, last.arguments, pre))}
    /\ (/\ DeclaredCall
        /\ last.function.name = "add"
        /\ Callee = Function(<<"a", "b">>, <<<<"T", Some("Number")>>>>,
                             BinaryOp("+", Variable("a"), Variable("b")))) =>
          /\ last.arguments = <<Literal(Number), Literal(Number)>> => result = Number
          /\ last.arguments = <<Literal(String), Literal(Number)>> =>
                (result = Undefined /\ trace = <<>>)

C10_Witness ==
    /\ DeclaredCall
    /\ last.function.name = "add"
    /\ last.arguments = <<Literal(String), Literal(Number)>>
    /\ result = Undefined
    /\ trace = <<>>

\* the left fold of merge over a sequence of values, starting from Undefined
RECURSIVE FoldJoin(_)
FoldJoin(values) ==
    IF Len(values) = 0 THEN {Undefined}
    ELSE UNION {merge(acc, values[Len(values)]) :
                    acc \in FoldJoin(SubSeq(values, 1, Len(values) - 1))}

\* what each variant of a Union contributes to an index read
RECURSIVE Contributions(_)
Contributions(variants) ==
    IF Len(variants) = 0 THEN {<<>>}
    ELSE {<<h>> \o t :
            h \in IF variants[1].tag = "Array" THEN FoldJoin(variants[1].elems)
                                                ELSE {Undefined},
            t \in Contributions(Tail(variants))}

\* the value of array_value[index_value]
IndexJoin(array_value, index_value) ==
    IF index_value # Number THEN {Undefined}
    ELSE CASE array_value.tag = "Array" -> FoldJoin(array_value.elems)
           [] array_value.tag = "Union" ->
                UNION {FoldJoin(cs) : cs \in Contributions(array_value.variants)}
           [] OTHER -> {Undefined}

\* C11: a call of a declared function leaves the caller's state as one
\* left-to-right evaluation of all its argument expressions, each once,
\* leaves it -- also for arguments with assignments inside them and for calls
\* with more arguments than parameters.
C11_ArgumentsOnce ==
    DeclaredCall =>
        state \in {e.state : e \in interpret_each(last.arguments, pre)}

\* C12: an index read evaluates the array expression, then the index
\* expression; an index that is not exactly Number gives Undefined; otherwise
\* an Array gives the fold of merge over all its elements from Undefined, a
\* Union the join of that element join over its Array variants (any other
\* variant contributing Undefined), anything else Undefined.  So
\* arr = [Number, String, Boolean]; elem = arr[Number] leaves elem the union
\* of Number, String and Boolean.
C12_ArrayIndexJoin ==
    /\ last.kind = "ArrayIndex" =>
          \E arr \in interpret(last.array, pre) :
          \E index \in interpret(last.index, arr.state) :
              /\ state = index.state
              /\ result \in IndexJoin(arr.value, index.value)
    /\ (last = AssignElem
        /\ get_or_undefined(pre, "arr") = Array(<<Number, String, Boolean>>)) =>
          /\ state.variables["elem"].tag = "Union"
          /\ Members(state.variables["elem"]) = {Number, String, Boolean}
          /\ Len(state.variables["elem"].variants) = 3
          /\ result = state.variables["elem"]

C12_Witness ==
    /\ last = AssignElem
    /\ get_or_undefined(pre, "arr") = Array(<<Number, String, Boolean>>)
    /\ result.tag = "Union"
    /\ Len(result.variants) = 3

\* C13: a WhileLoop clones the state, evaluates the body exactly once on the
\* clone, merges the clone into the original state with AbstractState::merge
\* and returns Undefined.  So after while (cond) { i = i + Number } with i
\* unbound before, i is the union of Number and String.
C13_WhileSinglePass ==
    /\ last.kind = "WhileLoop" =>
          /\ result = Undefined
          /\ \E loop \in interpret(last.body, pre) :
                /\ state \in AbstractState_merge(pre, loop.state)
                /\ trace = loop.log
    /\ (last = WhileDemo /\ "i" \notin DOMAIN pre.variables) =>
          /\ state.variables["i"].tag = "Union"
          /\ Members(state.variables["i"]) = {Number, String}
          /\ Len(state.variables["i"].variants) = 2

C13_Witness ==
    /\ last = WhileDemo
    /\ "i" \notin DOMAIN pre.variables
    /\ pre.variables # <<>>
    /\ state.variables["i"] = Union(<<Number, String>>)
    /\ result = Undefined

\* C14: a call of a declared function with fewer or with more arguments than
\* the function has parameters returns Undefined, whatever the body and the
\* argument values.
C14_WrongArityUndefined ==
    (DeclaredCall /\ Len(last.arguments) # Len(Callee.params)) =>
        result = Undefined

-----------------------------------------------------------------------------
(* Specification SpecFunctions: programs that declare functions whose bodies *)
(* call and declare functions, and that redeclare functions in the branches  *)
(* of an IfStatement, evaluated node by node on one root state               *)

\* function rec(n) { rec(n) }
DeclRec ==
    FunctionDeclaration("rec", <<"n">>, <<>>,
                        FunctionCall(Variable("rec"), <<Variable("n")>>))
\* function outer(n) { identity(n) }
DeclOuter ==
    FunctionDeclaration("outer", <<"n">>, <<>>,
                        FunctionCall(Variable("identity"), <<Variable("n")>>))
\* function inner(m) { m }
DeclInner == FunctionDeclaration("inner", <<"m">>, <<>>, Variable("m"))
\* function maker(n) { function inner(m) { m }; inner(n) }
DeclMaker ==
    FunctionDeclaration("maker", <<"n">>, <<>>,
        Block(<<DeclInner, FunctionCall(Variable("inner"), <<Variable("n")>>)>>))
\* function late(n) { r = inner(n); function inner(m) { m }; r }
DeclLate ==
    FunctionDeclaration("late", <<"n">>, <<>>,
        Block(<<Assignment("r", FunctionCall(Variable("inner"), <<Variable("n")>>)),
                DeclInner, Variable("r")>>))
\* two other definitions of identity
DeclIdentityBoolean ==
    FunctionDeclaration("identity", <<"x">>, <<>>, Literal(Boolean))
DeclIdentityString ==
    FunctionDeclaration("identity", <<"x", "y">>, <<>>, Literal(String))

TableDeclarationNodes ==
    {DeclIdentity, DeclInner, DeclRec, DeclOuter, DeclMaker, DeclLate}
TableCallNodes ==
    {FunctionCall(Variable(f), <<Literal(Number)>>) :
        f \in {"identity", "inner", "rec", "outer", "maker", "late"}}
TableIfNodes ==
    {IfStatement(CondEq, DeclIdentityBoolean, None),
     IfStatement(CondEq, DeclIdentityBoolean, Some(DeclIdentityString)),
     IfStatement(CondEq, DeclIdentityBoolean, Some(Assignment("w", Literal(Number)))),
     IfStatement(CondEq, Assignment("w", Literal(Number)), Some(DeclIdentityString)),
     IfStatement(CondEq, DeclRec, None),
     IfStatement(CondEq, Assignment("w", Literal(Number)), Some(DeclRec)),
     IfStatement(CondEq, DeclRec, Some(DeclInner))}

DeclareFunction ==
    /\ steps < MaxSteps
    /\ last = NoNode
    /\ \E node \in TableDeclarationNodes : \E o \in interpret(node, state) : \E watch \in BOOLEAN :
          /\ state' = o.state
          /\ last' = IF watch THEN node ELSE NoNode
          /\ pre' = IF watch THEN state ELSE o.state
          /\ result' = IF watch THEN o.value ELSE Undefined
          /\ trace' = IF watch THEN o.log ELSE <<>>
    /\ steps' = steps + 1
    /\ UNCHANGED valueVars
    /\ UNCHANGED stateVars
    /\ UNCHANGED contextVars
    /\ UNCHANGED machineVars

CallFunction ==
    /\ steps < MaxSteps
    /\ last = NoNode
    /\ \E node \in TableCallNodes : \E o \in interpret(node, state) : \E watch \in BOOLEAN :
          /\ state' = o.state
          /\ last' = IF watch THEN node ELSE NoNode
          /\ pre' = IF watch THEN state ELSE o.state
          /\ result' = IF watch THEN o.value ELSE Undefined
          /\ trace' = IF watch THEN o.log ELSE <<>>
    /\ steps' = steps + 1
    /\ UNCHANGED valueVars
    /\ UNCHANGED stateVars
    /\ UNCHANGED contextVars
    /\ UNCHANGED machineVars

BranchDeclare ==
    /\ steps < MaxSteps
    /\ last = NoNode
    /\ \E node \in TableIfNodes : \E o \in interpret(node, state) : \E watch \in BOOLEAN :
          /\ state' = o.state
          /\ last' = IF watch THEN node ELSE NoNode
          /\ pre' = IF watch THEN state ELSE o.state
          /\ result' = IF watch THEN o.value ELSE Undefined
          /\ trace' = IF watch THEN o.log ELSE <<>>
    /\ steps' = steps + 1
    /\ UNCHANGED valueVars
    /\ UNCHANGED stateVars
    /\ UNCHANGED contextVars
    /\ UNCHANGED machineVars

NextFunctions == DeclareFunction \/ CallFunction \/ BranchDeclare

SpecFunctions == Init /\ [][NextFunctions]_vars

-----------------------------------------------------------------------------
(* Claims about the function table *)

\* the names of the function declarations that occur in a node
RECURSIVE Declared(_)
DeclaredInAll(nodes) == UNION {Declared(nodes[i]) : i \in DOMAIN nodes}
Declared(node) ==
    CASE node.kind = "FunctionDeclaration" -> {node.name} \cup Declared(node.body)
      [] node.kind = "Assignment" -> Declared(node.value)
      [] node.kind = "BinaryOp" -> Declared(node.left) \cup Declared(node.right)
      [] node.kind = "IfStatement" ->
            Declared(node.condition) \cup Declared(node.then_branch)
            \cup DeclaredInAll(node.else_branch)
      [] node.kind = "WhileLoop" -> Declared(node.condition) \cup Declared(node.body)
      [] node.kind = "Block" -> DeclaredInAll(node.statements)
      [] node.kind = "FunctionCall" ->
            Declared(node.function) \cup DeclaredInAll(node.arguments)
      [] node.kind = "ArrayLiteral" -> DeclaredInAll(node.elements)
      [] node.kind = "ArrayIndex" -> Declared(node.array) \cup Declared(node.index)
      [] OTHER -> {}

\* C17: the callee state has an empty function table: a FunctionCall node in
\* the body of a called function -- to the function itself, to a function the
\* caller declared, or to any name not declared earlier in the same body
\* evaluation -- evaluates to Undefined, and the functions declared inside a
\* body are not in the caller's function table after the call returns.
C17_EmptyCalleeTable ==
    (DeclaredCall /\ PureArgs(last.arguments) /\ trace # <<>>) =>
        /\ state.functions = pre.functions
        /\ \A i \in 2..Len(trace) : trace[i] \in Declared(Callee.body)
        /\ Callee.body.kind = "FunctionCall" =>
              (result = Undefined /\ trace = <<last.function.name>>)
        /\ Callee = Function(DeclLate.params, DeclLate.generics, DeclLate.body) =>
              (result = Undefined /\ trace = <<last.function.name>>)
        /\ Callee = Function(DeclMaker.params, DeclMaker.generics, DeclMaker.body) =>
              (result = Number /\ trace = <<last.function.name, "inner">>)

C17_Witness ==
    /\ DeclaredCall
    /\ last.function.name = "outer"
    /\ "identity" \in DOMAIN pre.functions
    /\ trace = <<"outer">>
    /\ result = Undefined
    /\ state.functions = pre.functions

\* what a branch of an IfStatement declares, when the branch is a declaration
BranchDeclares(branch, f) ==
    branch # None /\ branch[1].kind = "FunctionDeclaration" /\ branch[1].name = f
BranchFunction(branch) ==
    Function(branch[1].params, branch[1].generics, branch[1].body)

\* C18: after an IfStatement a function f declared before it has the
\* definition the else clone holds: the definition it had before the branches
\* when only the then branch redeclares it, the else branch's definition when
\* the else branch redeclares it; a name first declared in only one branch is
\* present afterwards with that branch's definition.
C18_ElseCloneWins ==
    (/\ last.kind = "IfStatement"
     /\ last.then_branch.kind \in {"FunctionDeclaration", "Assignment"}
     /\ last.else_branch # None =>
            last.else_branch[1].kind \in {"FunctionDeclaration", "Assignment"}) =>
        LET then_b == Some(last.then_branch)
            else_b == last.else_branch
        IN /\ \A f \in DOMAIN pre.functions :
                 /\ f \in DOMAIN state.functions
                 /\ state.functions[f] =
                        IF BranchDeclares(else_b, f) THEN BranchFunction(else_b)
                        ELSE pre.functions[f]
           /\ \A f \in {"identity", "rec", "inner"} \ DOMAIN pre.functions :
                 /\ (BranchDeclares(then_b, f) /\ ~BranchDeclares(else_b, f)) =>
                       (f \in DOMAIN state.functions
                        /\ state.functions[f] = BranchFunction(then_b))
                 /\ (BranchDeclares(else_b, f) /\ ~BranchDeclares(then_b, f)) =>
                       (f \in DOMAIN state.functions
                        /\ state.functions[f] = BranchFunction(else_b))

C18_Witness ==
    /\ last = IfStatement(CondEq, DeclIdentityBoolean, None)
    /\ "identity" \in DOMAIN pre.functions
    /\ pre.functions["identity"] # BranchFunction(Some(DeclIdentityBoolean))
    /\ state.functions["identity"] = pre.functions["identity"]

-----------------------------------------------------------------------------
(* Crate constraint: Type, TypeContext and unification *)

TypeInt == [ty |-> "Int"]
TypeBool == [ty |-> "Bool"]
Var(id) == [ty |-> "Var", id |-> id]
Func(param, ret) == [ty |-> "Func", param |-> param, ret |-> ret]

RECURSIVE lookup_type(_, _)
RECURSIVE occurs_check(_, _, _)
RECURSIVE unify(_, _, _)

\* ctx.lookup_type(t): the type returned and the substitutions the call
\* leaves (every variable looked up on the way is re-inserted with the result)
lookup_type(subs, t) ==
    IF t.ty = "Var" /\ t.id \in DOMAIN subs
    THEN LET final == lookup_type(subs, subs[t.id])
         IN [type |-> final.type,
             substitutions |-> Insert(final.substitutions, t.id, final.type)]
    ELSE [type |-> t, substitutions |-> subs]

\* an occurs check that never finds the variable
occurs_check_never(var, ty, subs) ==
    [found |-> FALSE, substitutions |-> subs]

\* occurs_check(var, ty, ctx).  In the Var arm the pattern binds the variable
\* of ty as tv, and the comparison is tv == tv2: ty's own variable against
\* what it resolves to, not `var`.
occurs_check(var, ty, subs) ==
    CASE ty.ty = "Var" ->
            LET t == lookup_type(subs, ty)
            IN IF t.type.ty = "Var"
               THEN [found |-> (ty.id = t.type.id), substitutions |-> t.substitutions]
               ELSE occurs_check(var, t.type, t.substitutions)
      [] ty.ty = "Func" ->
            LET first == occurs_check(var, ty.param, subs)
            IN IF first.found THEN first
               ELSE occurs_check(var, ty.ret, first.substitutions)
      [] OTHER -> [found |-> FALSE, substitutions |-> subs]

\* ctx.unify(t1, t2): "Ok", or which Err, and the substitutions left
unify(subs, t1, t2) ==
    LET la == lookup_type(subs, t1)
        lb == lookup_type(la.substitutions, t2)
        ta == la.type
        tb == lb.type
        s0 == lb.substitutions
    IN CASE (ta = TypeInt /\ tb = TypeInt) \/ (ta = TypeBool /\ tb = TypeBool) ->
                [result |-> "Ok", substitutions |-> s0]
         [] ~((ta = TypeInt /\ tb = TypeInt) \/ (ta = TypeBool /\ tb = TypeBool))
            /\ (ta.ty = "Var" \/ tb.ty = "Var") ->
                LET tv == IF ta.ty = "Var" THEN ta.id ELSE tb.id
                    t == IF ta.ty = "Var" THEN tb ELSE ta
                    oc == occurs_check(tv, t, s0)
                IN IF t = Var(tv) THEN [result |-> "Ok", substitutions |-> s0]
                   ELSE IF oc.found
                   THEN [result |-> "OccursCheckFailed", substitutions |-> oc.substitutions]
                   ELSE [result |-> "Ok",
                         substitutions |-> Insert(oc.substitutions, tv, t)]
         [] ta.ty = "Func" /\ tb.ty = "Func" ->
                LET first == unify(s0, ta.param, tb.param)
                IN IF first.result # "Ok" THEN first
                   ELSE unify(first.substitutions, ta.ret, tb.ret)
         [] OTHER -> [result |-> "TypeMismatch", substitutions |-> s0]

-----------------------------------------------------------------------------
(* Specification SpecUnify: new_type_var and unify called in any order on a  *)
(* TypeContext that starts empty                                             *)

\* the variables created so far
CreatedVars == {Var(id) : id \in 0..(next_var_id - 1)}
\* the types handed to unify as second argument
Leaves == {TypeInt, TypeBool} \cup CreatedVars
UnifyTypes ==
    Leaves
    \cup {Func(TypeInt, TypeInt)}
    \cup {Func(v, TypeInt) : v \in CreatedVars}
    \cup {Func(TypeInt, v) : v \in CreatedVars \cap {Var(0)}}
    \cup {Func(Func(v, TypeInt), v) : v \in CreatedVars}
\* the types handed to unify as first argument
UnifyFirst ==
    {TypeInt} \cup CreatedVars \cup {Func(v, TypeInt) : v \in CreatedVars}

InitUnify ==
    /\ ContextIdle
    /\ MachineIdle
    /\ ValueIdle
    /\ StateIdle
    /\ InterpIdle

\* ctx.new_type_var()
NewTypeVar ==
    /\ next_var_id < MaxVars
    /\ next_var_id' = next_var_id + 1
    /\ ucall' = [op |-> "new_type_var", result |-> Var(next_var_id)]
    /\ UNCHANGED substitutions
    /\ UNCHANGED valueVars
    /\ UNCHANGED stateVars
    /\ UNCHANGED interpVars
    /\ UNCHANGED machineVars

\* ctx.unify(&t1, &t2)
Unify ==
    /\ \E t1 \in UnifyFirst : \E t2 \in UnifyTypes :
          LET u == unify(substitutions, t1, t2)
          IN /\ substitutions' = u.substitutions
             /\ ucall' = [op |-> "unify", result |-> u.result]
    /\ UNCHANGED next_var_id
    /\ UNCHANGED valueVars
    /\ UNCHANGED stateVars
    /\ UNCHANGED interpVars
    /\ UNCHANGED machineVars

NextUnify == NewTypeVar \/ Unify

SpecUnify == InitUnify /\ [][NextUnify]_vars

-----------------------------------------------------------------------------
(* Claims about unification *)

\* the variables that occur in a type, through Func components
RECURSIVE VarsOf(_)
VarsOf(t) ==
    CASE t.ty = "Var" -> {t.id}
      [] t.ty = "Func" -> VarsOf(t.param) \cup VarsOf(t.ret)
      [] OTHER -> {}

\* the variables reachable from the set S in at most n steps, a step going
\* from a substituted variable to a variable of its substitution
RECURSIVE ReachableIn(_, _)
ReachableIn(S, n) ==
    IF n = 0 THEN {}
    ELSE LET next == UNION {VarsOf(substitutions[v]) : v \in S \cap DOMAIN substitutions}
         IN next \cup ReachableIn(next, n - 1)

\* C16: unification never creates a cyclic substitution: from an empty
\* TypeContext, after any sequence of new_type_var and unify calls, returning
\* Ok or Err, no type variable is reachable from itself by following the
\* substitutions map through Var and Func components (so that lookup_type
\* terminates on every type).
C16_NoCyclicSubstitution ==
    \A v \in DOMAIN substitutions :
        v \notin ReachableIn({v}, Cardinality(DOMAIN substitutions) + 1)

C16_Witness ==
    /\ ucall = [op |-> "unify", result |-> "OccursCheckFailed"]
    /\ \E v \in DOMAIN substitutions :
          /\ substitutions[v].ty = "Func"
          /\ VarsOf(substitutions[v]) \cap DOMAIN substitutions # {}

-----------------------------------------------------------------------------
(* One call of interpret taken step by step.  A step either starts the       *)
(* evaluation of a node (an activation of interpret) or runs what follows    *)
(* the evaluation of its children.  The activations the code keeps on the    *)
(* call stack are the tasks of ctl; a call of a declared function stays      *)
(* active until its TaskReturn.  Unbounded recursion would exhaust the stack *)
(* and abort the process: status "overflow".                                 *)

TaskEval(node, env) == [t |-> "eval", node |-> node, env |-> env]
TaskAssign(target, env) == [t |-> "assign", target |-> target, env |-> env]
TaskBinaryOp(o) == [t |-> "binop", op |-> o]
TaskDiscard == [t |-> "discard"]
TaskPush(value) == [t |-> "push", value |-> value]
TaskFork(node, env) == [t |-> "fork", node |-> node, env |-> env]
TaskJoin(env, then_env, else_env) ==
    [t |-> "join", env |-> env, then_env |-> then_env, else_env |-> else_env]
TaskLoopJoin(env, loop_env) == [t |-> "loopjoin", env |-> env, loop_env |-> loop_env]
TaskBind(param, env) == [t |-> "bind", param |-> param, env |-> env]
TaskConstraint(constraint) == [t |-> "constraint", constraint |-> constraint]
TaskReturn == [t |-> "ret"]
TaskArray(n) == [t |-> "array", n |-> n]
TaskIndex == [t |-> "index"]

RECURSIVE Flatten(_)
Flatten(seqs) == IF Len(seqs) = 0 THEN <<>> ELSE Head(seqs) \o Flatten(Tail(seqs))

\* for stmt in statements { result = interpret(stmt, state) }
BlockTasks(statements, env) ==
    IF Len(statements) = 0 THEN <<TaskPush(Undefined)>>
    ELSE Flatten([i \in 1..Len(statements) |->
            IF i < Len(statements)
            THEN <<TaskEval(statements[i], env), TaskDiscard>>
            ELSE <<TaskEval(statements[i], env)>>])

\* the two binding loops around the generics loop, then the body
CallTasks(func, arguments, env, func_env) ==
    LET zipped == zip_arguments(func.params, arguments)
        binding == Flatten([i \in 1..Len(zipped) |->
                      <<TaskEval(zipped[i], env), TaskBind(func.params[i], func_env)>>])
        generic == Flatten([i \in 1..Len(func.generics) |->
                      IF i <= Len(arguments)
                      THEN <<TaskEval(arguments[i], env),
                             TaskConstraint(func.generics[i][2])>>
                      ELSE <<>>])
    IN binding \o generic \o binding \o <<TaskEval(func.body, func_env), TaskReturn>>

\* the calls of declared functions that are active
Depth(tasks) == Cardinality({i \in DOMAIN tasks : tasks[i].t = "ret"})

\* return AbstractValue::Undefined from inside the generics loop: what is
\* left of the innermost active call is abandoned
RECURSIVE AfterReturn(_)
AfterReturn(tasks) ==
    IF Head(tasks).t = "ret" THEN Tail(tasks) ELSE AfterReturn(Tail(tasks))

Machine(tasks, values, states, st) ==
    [ctl |-> tasks, vals |-> values, heap |-> states, status |-> st]

\* an activation of interpret on a node without children
eval_leaf(k) ==
    {Machine(Tail(ctl), <<o.value>> \o vals, [heap EXCEPT ![k.env] = o.state], status) :
        o \in interpret(k.node, heap[k.env])}

\* an activation of interpret on a node with children, a call excepted
eval_compound(k) ==
    LET node == k.node
        env == k.env
        fresh == Len(heap) + 1
        todo ==
            CASE node.kind = "Assignment" ->
                    <<TaskEval(node.value, env), TaskAssign(node.target, env)>>
              [] node.kind = "BinaryOp" ->
                    <<TaskEval(node.left, env), TaskEval(node.right, env),
                      TaskBinaryOp(node.op)>>
              [] node.kind = "IfStatement" ->
                    <<TaskEval(node.condition, env), TaskDiscard, TaskFork(node, env)>>
              [] node.kind = "WhileLoop" ->
                    <<TaskEval(node.body, fresh), TaskLoopJoin(env, fresh)>>
              [] node.kind = "Block" -> BlockTasks(node.statements, env)
              [] node.kind = "ArrayLiteral" ->
                    [i \in 1..Len(node.elements) |-> TaskEval(node.elements[i], env)]
                    \o <<TaskArray(Len(node.elements))>>
              [] node.kind = "ArrayIndex" ->
                    <<TaskEval(node.array, env), TaskEval(node.index, env), TaskIndex>>
    IN {Machine(todo \o Tail(ctl), vals,
                IF node.kind = "WhileLoop" THEN Append(heap, heap[env]) ELSE heap,
                status)}

\* an activation of interpret on a FunctionCall
eval_call(k) ==
    LET node == k.node
        env == k.env
    IN IF node.function.kind # "Variable"
          \/ node.function.name \notin DOMAIN heap[env].functions
       THEN {Machine(Tail(ctl), <<Undefined>> \o vals, heap, status)}
       ELSE IF Depth(ctl) >= MaxDepth
       THEN {Machine(ctl, vals, heap, "overflow")}
       ELSE {Machine(CallTasks(heap[env].functions[node.function.name],
                               node.arguments, env, Len(heap) + 1) \o Tail(ctl),
                     vals,
                     Append(heap, new_func_state(heap[env])),
                     status)}

\* what follows the evaluation of the children of a node
continue(k) ==
    LET rest == Tail(ctl)
        below(n) == SubSeq(vals, n + 1, Len(vals))
    IN CASE k.t = "assign" ->
                {Machine(rest, vals,
                         [heap EXCEPT ![k.env] = assign(@, k.target, vals[1])], status)}
         [] k.t = "binop" ->
                {Machine(rest, <<binary_op(k.op, vals[2], vals[1])>> \o below(2),
                         heap, status)}
         [] k.t = "discard" -> {Machine(rest, below(1), heap, status)}
         [] k.t = "push" -> {Machine(rest, <<k.value>> \o vals, heap, status)}
         [] k.t = "fork" ->
                LET then_env == Len(heap) + 1
                    else_env == Len(heap) + 2
                IN {Machine(<<TaskEval(k.node.then_branch, then_env),
                              IF k.node.else_branch = None
                              THEN TaskPush(Undefined)
                              ELSE TaskEval(k.node.else_branch[1], else_env),
                              TaskJoin(k.env, then_env, else_env)>> \o rest,
                            vals, heap \o <<heap[k.env], heap[k.env]>>, status)}
         [] k.t = "join" ->
                {Machine(rest, <<o.value>> \o below(2),
                         [heap EXCEPT ![k.env] = o.state], status) :
                    o \in join_branches(heap[k.env],
                                        Out(vals[2], heap[k.then_env], <<>>),
                                        Out(vals[1], heap[k.else_env], <<>>), <<>>)}
         [] k.t = "loopjoin" ->
                {Machine(rest, <<Undefined>> \o below(1),
                         [heap EXCEPT ![k.env] = s], status) :
                    s \in AbstractState_merge(heap[k.env], heap[k.loop_env])}
         [] k.t = "bind" ->
                {Machine(rest, below(1),
                         [heap EXCEPT ![k.env] = assign(@, k.param, vals[1])], status)}
         [] k.t = "constraint" ->
                IF k.constraint # None /\ ~satisfies_constraint(vals[1], k.constraint[1])
                THEN {Machine(AfterReturn(rest), <<Undefined>> \o below(1), heap, status)}
                ELSE {Machine(rest, below(1), heap, status)}
         [] k.t = "ret" -> {Machine(rest, vals, heap, status)}
         [] k.t = "array" ->
                {Machine(rest,
                         <<Array([i \in 1..k.n |-> vals[k.n - i + 1]])>> \o below(k.n),
                         heap, status)}
         [] k.t = "index" ->
                {Machine(rest, <<v>> \o below(2), heap, status) :
                    v \in IF vals[1] # Number THEN {Undefined} ELSE element_type(vals[2])}

-----------------------------------------------------------------------------
(* Specification SpecTotal: interpret(&program, &mut initial), step by step  *)

\* function ping(n) { pong(n) }  function pong(n) { ping(n) }
DeclPing ==
    FunctionDeclaration("ping", <<"n">>, <<>>,
                        FunctionCall(Variable("pong"), <<Variable("n")>>))
DeclPong ==
    FunctionDeclaration("pong", <<"n">>, <<>>,
                        FunctionCall(Variable("ping"), <<Variable("n")>>))
\* function f(n) { function f(m) { f(m) }; f(n) }
DeclShadow ==
    FunctionDeclaration("f", <<"n">>, <<>>,
        Block(<<FunctionDeclaration("f", <<"m">>, <<>>,
                                    FunctionCall(Variable("f"), <<Variable("m")>>)),
                FunctionCall(Variable("f"), <<Variable("n")>>)>>))

CallWith(f, arg) == FunctionCall(Variable(f), <<arg>>)

ProgramSelf == Block(<<DeclRec, CallWith("rec", Literal(Number))>>)
ProgramMutual == Block(<<DeclPing, DeclPong, CallWith("ping", Literal(Number))>>)
ProgramShadow == Block(<<DeclShadow, CallWith("f", Literal(Number))>>)
\* a loop whose body calls, with a call as argument
ProgramLoopCall ==
    Block(<<DeclIdentity, DeclRec,
            WhileLoop(CondEq,
                      Assignment("x", CallWith("identity", CallWith("rec", VarX))))>>)
ProgramNestedLoops ==
    WhileLoop(CondEq,
              WhileLoop(CondEq, Assignment("x", BinaryOp("+", VarX, Literal(Number)))))
\* a constraint that fails inside an argument list
ProgramArrays ==
    Block(<<DeclAdd,
            ArrayIndex(ArrayLiteral(<<FunctionCall(Variable("add"),
                                                   <<Literal(String), Literal(Number)>>),
                                      FunctionCall(Variable("add"),
                                                   <<VarX, Literal(Number)>>)>>),
                       Literal(Number))>>)
\* the program of main
ProgramMain ==
    Block(<<FunctionDeclaration("add", <<"a", "b">>, <<>>,
                                BinaryOp("+", Variable("a"), Variable("b"))),
            Assignment("x", Literal(Number)),
            Assignment("y", Literal(Number)),
            Assignment("z", FunctionCall(Variable("add"), <<VarX, VarY>>)),
            IfDemo, WhileDemo, AssignArr, AssignElem>>)

TotalPrograms ==
    {ProgramSelf, ProgramMutual, ProgramShadow, ProgramLoopCall, ProgramNestedLoops,
     ProgramArrays, ProgramMain,
     CallWith("rec", VarX), CallWith("ping", VarX),
     IfStatement(CallWith("rec", VarX), CallWith("ping", VarX), Some(DeclMaker))}

\* the empty state, and a state that already holds recursive functions
DeclaredBefore ==
    AbstractState("x" :> Number,
                  ("rec" :> Function(DeclRec.params, DeclRec.generics, DeclRec.body))
                  @@ ("ping" :> Function(DeclPing.params, DeclPing.generics, DeclPing.body))
                  @@ ("pong" :> Function(DeclPong.params, DeclPong.generics, DeclPong.body)))
TotalStates == {AbstractState_new, DeclaredBefore}

InitTotal ==
    /\ program \in TotalPrograms
    /\ initial \in TotalStates
    /\ ctl = <<TaskEval(program, 1)>>
    /\ vals = <<>>
    /\ heap = <<initial>>
    /\ status = "running"
    /\ ValueIdle
    /\ StateIdle
    /\ InterpIdle
    /\ ContextIdle

EvalLeaf ==
    /\ status = "running"
    /\ ctl # <<>>
    /\ Head(ctl).t = "eval"
    /\ Head(ctl).node.kind \in {"Literal", "Variable", "FunctionDeclaration"}
    /\ \E m \in eval_leaf(Head(ctl)) :
          /\ ctl' = m.ctl /\ vals' = m.vals /\ heap' = m.heap /\ status' = m.status
    /\ UNCHANGED <<program, initial>>
    /\ UNCHANGED valueVars
    /\ UNCHANGED stateVars
    /\ UNCHANGED interpVars
    /\ UNCHANGED contextVars

EvalCompound ==
    /\ status = "running"
    /\ ctl # <<>>
    /\ Head(ctl).t = "eval"
    /\ Head(ctl).node.kind \in {"Assignment", "BinaryOp", "IfStatement", "WhileLoop",
                                 "Block", "ArrayLiteral", "ArrayIndex"}
    /\ \E m \in eval_compound(Head(ctl)) :
          /\ ctl' = m.ctl /\ vals' = m.vals /\ heap' = m.heap /\ status' = m.status
    /\ UNCHANGED <<program, initial>>
    /\ UNCHANGED valueVars
    /\ UNCHANGED stateVars
    /\ UNCHANGED interpVars
    /\ UNCHANGED contextVars

EvalCall ==
    /\ status = "running"
    /\ ctl # <<>>
    /\ Head(ctl).t = "eval"
    /\ Head(ctl).node.kind = "FunctionCall"
    /\ \E m \in eval_call(Head(ctl)) :
          /\ ctl' = m.ctl /\ vals' = m.vals /\ heap' = m.heap /\ status' = m.status
    /\ UNCHANGED <<program, initial>>
    /\ UNCHANGED valueVars
    /\ UNCHANGED stateVars
    /\ UNCHANGED interpVars
    /\ UNCHANGED contextVars

Continue ==
    /\ status = "running"
    /\ ctl # <<>>
    /\ Head(ctl).t # "eval"
    /\ \E m \in continue(Head(ctl)) :
          /\ ctl' = m.ctl /\ vals' = m.vals /\ heap' = m.heap /\ status' = m.status
    /\ UNCHANGED <<program, initial>>
    /\ UNCHANGED valueVars
    /\ UNCHANGED stateVars
    /\ UNCHANGED interpVars
    /\ UNCHANGED contextVars

\* the outermost activation returns
Return ==
    /\ status = "running"
    /\ ctl = <<>>
    /\ status' = "done"
    /\ UNCHANGED <<program, initial, ctl, vals, heap>>
    /\ UNCHANGED valueVars
    /\ UNCHANGED stateVars
    /\ UNCHANGED interpVars
    /\ UNCHANGED contextVars

NextTotal == EvalLeaf \/ EvalCompound \/ EvalCall \/ Continue \/ Return

\* a running evaluation keeps running: the process is not suspended
SpecTotal == InitTotal /\ [][NextTotal]_vars /\ WF_vars(NextTotal)

-----------------------------------------------------------------------------
(* Claims about termination *)

\* the run returned one value, and that value and the root state are an
\* outcome of interpret(program, initial)
Returned ==
    /\ Len(vals) = 1
    /\ \E o \in interpret(program, initial) : vals[1] = o.value /\ heap[1] = o.state

\* C15: interpret is total: for every program and initial state the
\* evaluation terminates and returns an AbstractValue without aborting --
\* also for programs that declare self-recursive or mutually recursive
\* functions and call them, and for loops whose bodies contain calls or
\* nested loops.
C15_Total ==
    /\ [](status # "overflow")
    /\ [](status = "done" => Returned)
    /\ <>(status = "done")

C15_Witness ==
    /\ status = "done"
    /\ program = ProgramSelf
    /\ vals = <<Undefined>>
    /\ "rec" \in DOMAIN heap[1].functions
    /\ Len(heap) = 2

====
